---- MODULE Spec2Model ----
(***************************************************************************)
(* Room-synchronisation server of kesai (Socket.IO backend) as a state     *)
(* machine.  One action per socket handler; every handler runs to          *)
(* completion (single-threaded event loop).                                *)
(*                                                                         *)
(* Socket ids are generated by the transport; room ids are the strings     *)
(* clients send.  The model draws room ids from RoomIds, a set disjoint    *)
(* from the socket ids, so the private room every socket has under its own *)
(* id is never named by a createRoom/joinRoom/updateRoom payload.          *)
(***************************************************************************)
EXTENDS Integers, Sequences, FiniteSets, TLC

\* ---- bounds of the model ----
MaxTime == 1

Sockets == {"c1", "c2", "c3"}
RoomIds == {"R1", "R2"}
Urls == {"v1", "v2"}
Times == 0..MaxTime

\* ---- type definitions ----
VideoEventType == {"play", "pause", "seek"}

VideoEventPayload == [type : VideoEventType, currentTime : Times]

VARIABLES
    roomStore,   \* Map room id -> RoomState (a function on the stored keys)
    status,      \* per socket: "connected" or "closed" (socket ids are never reused)
    rooms,       \* socket.rooms: per socket, the set of rooms it is in
    sent,        \* the emit calls made by the last handler
    last,        \* the last handler that ran, its socket and its payload; for
                 \* createRoom also whether the key was already stored, for disconnect
                 \* the rooms the socket was taken out of (left)
    view,        \* per socket: what the messages written to it amount to, the last
                 \* snapshot with the later events folded in ({} before any snapshot)
    outbox,      \* per socket: the videoEvents the client emitted, not yet handled
    inbox,       \* per socket: the videoEvents written to it, not yet received
    player       \* per socket: the client's media player (paused, currentTime in s)

serverVars == <<roomStore, status, rooms, sent, last>>

clientVars == <<view, outbox, inbox, player>>

vars == <<roomStore, status, rooms, sent, last, view, outbox, inbox, player>>

\* interface RoomState
RoomState ==
    [roomId : RoomIds, videoUrl : Urls \cup {""}, lastKnownTime : Times,
     state : {"playing", "paused"}]

\* the shape of the server's state: the store maps some room ids to a
\* RoomState; a connected socket is in the room of its own id and in the rooms
\* it created or joined; a closed socket is in none
TypeOK ==
    /\ DOMAIN roomStore \subseteq RoomIds
    /\ \A r \in DOMAIN roomStore : roomStore[r] \in RoomState
    /\ status \in [Sockets -> {"connected", "closed"}]
    /\ \A s \in Sockets :
          /\ rooms[s] \subseteq RoomIds \cup {s}
          /\ status[s] = "connected" <=> s \in rooms[s]
          /\ status[s] = "closed" => rooms[s] = {}
    /\ \A m \in sent :
          /\ m.channel \in {"syncVideo", "videoEvent"}
          /\ m.to \subseteq Sockets

\* ---- helpers on Map / Set ----
MapSet(store, key, value) == (key :> value) @@ store

\* sockets in a transport room (adapter's view)
Members(room) == {s \in Sockets : room \in rooms[s]}

\* ---- emit calls: channel, payload, the room addressed, the sockets written to ----
Emit(channel, payload, target, to) ==
    [channel |-> channel, payload |-> payload, target |-> target, to |-> to]

\* socket.emit: to this socket only
SocketEmit(socket, channel, payload) == Emit(channel, payload, socket, {socket})

\* io.to(room).emit: to every socket in the room
IoToEmit(room, channel, payload) == Emit(channel, payload, room, Members(room))

\* variant: the relay goes to the whole room, the sender included (io.to)
SocketToEmit_Echo(socket, room, channel, payload) ==
    Emit(channel, payload, room, Members(room))

\* socket.to(room).emit: to every socket in the room except the sender
SocketToEmit(socket, room, channel, payload) ==
    Emit(channel, payload, room, Members(room) \ Members(socket))

\* variant: the seek branch is a copy of the pause branch
updateRoomState_SeekPauses(store, roomId, event) ==
    IF roomId \in DOMAIN store
    THEN LET room == store[roomId]
             room2 == IF event.type = "play"
                        THEN [room EXCEPT !.state = "playing",
                                          !.lastKnownTime = event.currentTime]
                      ELSE [room EXCEPT !.state = "paused",
                                        !.lastKnownTime = event.currentTime]
         IN MapSet(store, roomId, room2)
    ELSE store

\* variant: an event for a room that is not stored creates its entry
updateRoomState_Upsert(store, roomId, event) ==
    LET room == IF roomId \in DOMAIN store THEN store[roomId]
                ELSE [roomId |-> roomId, videoUrl |-> "",
                      lastKnownTime |-> 0, state |-> "paused"]
        room2 == IF event.type = "play"
                   THEN [room EXCEPT !.state = "playing",
                                     !.lastKnownTime = event.currentTime]
                 ELSE IF event.type = "pause"
                   THEN [room EXCEPT !.state = "paused",
                                     !.lastKnownTime = event.currentTime]
                 ELSE [room EXCEPT !.lastKnownTime = event.currentTime]
    IN MapSet(store, roomId, room2)

\* variant: timestamp-ordered reconciliation, an event older than the stored
\* position is dropped
updateRoomState_NewestWins(store, roomId, event) ==
    IF roomId \in DOMAIN store /\ event.currentTime >= store[roomId].lastKnownTime
    THEN LET room == store[roomId]
             room2 == IF event.type = "play"
                        THEN [room EXCEPT !.state = "playing",
                                          !.lastKnownTime = event.currentTime]
                      ELSE IF event.type = "pause"
                        THEN [room EXCEPT !.state = "paused",
                                          !.lastKnownTime = event.currentTime]
                      ELSE [room EXCEPT !.lastKnownTime = event.currentTime]
         IN MapSet(store, roomId, room2)
    ELSE store

\* ---- helper: update room state ----
updateRoomState(store, roomId, event) ==
    IF roomId \in DOMAIN store
    THEN LET room == store[roomId]
             room2 == IF event.type = "play"
                        THEN [room EXCEPT !.state = "playing",
                                          !.lastKnownTime = event.currentTime]
                      ELSE IF event.type = "pause"
                        THEN [room EXCEPT !.state = "paused",
                                          !.lastKnownTime = event.currentTime]
                      ELSE IF event.type = "seek"
                        THEN [room EXCEPT !.lastKnownTime = event.currentTime]
                      ELSE room
         IN MapSet(store, roomId, room2)
    ELSE store

\* io.on('connection') has run for every socket: each is connected and is in
\* the room named by its own id; the store is empty
Init ==
    /\ roomStore = <<>>
    /\ status = [s \in Sockets |-> "connected"]
    /\ rooms = [s \in Sockets |-> {s}]
    /\ sent = {}
    /\ last = [op |-> "connection"]
    /\ view = [s \in Sockets |-> {}]
    /\ outbox = [s \in Sockets |-> <<>>]
    /\ inbox = [s \in Sockets |-> <<>>]
    /\ player = [s \in Sockets |-> [paused |-> TRUE, currentTime |-> <<0, 1000>>]]

\* variant: the entry is built with its roomId and videoUrl fields swapped
CreateRoom_SwapFields(socket, roomId, videoUrl) ==
    /\ status[socket] = "connected"
    /\ LET roomState == [roomId |-> videoUrl, videoUrl |-> roomId,
                         lastKnownTime |-> 0, state |-> "paused"]
       IN /\ roomStore' = MapSet(roomStore, roomId, roomState)
          /\ rooms' = [rooms EXCEPT ![socket] = @ \cup {roomId}]
          /\ sent' = {SocketEmit(socket, "syncVideo", roomState)}
    /\ last' = [op |-> "createRoom", socket |-> socket,
                data |-> [roomId |-> roomId, videoUrl |-> videoUrl],
                existed |-> roomId \in DOMAIN roomStore]
    /\ UNCHANGED status

\* variant: the initial sync state goes to the whole room (io.to(roomId))
CreateRoom_Broadcast(socket, roomId, videoUrl) ==
    /\ status[socket] = "connected"
    /\ LET roomState == [roomId |-> roomId, videoUrl |-> videoUrl,
                         lastKnownTime |-> 0, state |-> "paused"]
       IN /\ roomStore' = MapSet(roomStore, roomId, roomState)
          /\ rooms' = [rooms EXCEPT ![socket] = @ \cup {roomId}]
          /\ sent' = {Emit("syncVideo", roomState, roomId, Members(roomId) \cup {socket})}
    /\ last' = [op |-> "createRoom", socket |-> socket,
                data |-> [roomId |-> roomId, videoUrl |-> videoUrl],
                existed |-> roomId \in DOMAIN roomStore]
    /\ UNCHANGED status

\* variant: an existing room keeps its playback position and state (merge)
CreateRoom_Merge(socket, roomId, videoUrl) ==
    /\ status[socket] = "connected"
    /\ LET roomState == IF roomId \in DOMAIN roomStore
                          THEN [roomStore[roomId] EXCEPT !.videoUrl = videoUrl]
                          ELSE [roomId |-> roomId, videoUrl |-> videoUrl,
                                lastKnownTime |-> 0, state |-> "paused"]
       IN /\ roomStore' = MapSet(roomStore, roomId, roomState)
          /\ rooms' = [rooms EXCEPT ![socket] = @ \cup {roomId}]
          /\ sent' = {SocketEmit(socket, "syncVideo", roomState)}
    /\ last' = [op |-> "createRoom", socket |-> socket,
                data |-> [roomId |-> roomId, videoUrl |-> videoUrl],
                existed |-> roomId \in DOMAIN roomStore]
    /\ UNCHANGED status

\* socket.on('createRoom')
CreateRoom(socket, roomId, videoUrl) ==
    /\ status[socket] = "connected"
    /\ LET roomState == [roomId |-> roomId, videoUrl |-> videoUrl,
                         lastKnownTime |-> 0, state |-> "paused"]
       IN /\ roomStore' = MapSet(roomStore, roomId, roomState)
          /\ rooms' = [rooms EXCEPT ![socket] = @ \cup {roomId}]
          /\ sent' = {SocketEmit(socket, "syncVideo", roomState)}
    /\ last' = [op |-> "createRoom", socket |-> socket,
                data |-> [roomId |-> roomId, videoUrl |-> videoUrl],
                existed |-> roomId \in DOMAIN roomStore]
    /\ UNCHANGED status

\* the empty config sent for a room that is not stored
defaultRoomState(roomId) ==
    [roomId |-> roomId, videoUrl |-> "", lastKnownTime |-> 0, state |-> "paused"]

\* variant: joining a room that is not stored stores the empty config for it
JoinRoom_Creates(socket, roomId) ==
    /\ status[socket] = "connected"
    /\ rooms' = [rooms EXCEPT ![socket] = @ \cup {roomId}]
    /\ IF roomId \in DOMAIN roomStore
         THEN /\ sent' = {SocketEmit(socket, "syncVideo", roomStore[roomId])}
              /\ roomStore' = roomStore
         ELSE /\ sent' = {SocketEmit(socket, "syncVideo", defaultRoomState(roomId))}
              /\ roomStore' = MapSet(roomStore, roomId, defaultRoomState(roomId))
    /\ last' = [op |-> "joinRoom", socket |-> socket, data |-> [roomId |-> roomId]]
    /\ UNCHANGED status

\* variant: nothing is sent when the room is not stored
JoinRoom_NoDefault(socket, roomId) ==
    /\ status[socket] = "connected"
    /\ rooms' = [rooms EXCEPT ![socket] = @ \cup {roomId}]
    /\ sent' = IF roomId \in DOMAIN roomStore
                 THEN {SocketEmit(socket, "syncVideo", roomStore[roomId])}
                 ELSE {}
    /\ last' = [op |-> "joinRoom", socket |-> socket, data |-> [roomId |-> roomId]]
    /\ UNCHANGED <<roomStore, status>>

\* variant: the joiner is sent the room as it was created, not as it is now
JoinRoom_Initial(socket, roomId) ==
    /\ status[socket] = "connected"
    /\ rooms' = [rooms EXCEPT ![socket] = @ \cup {roomId}]
    /\ sent' = IF roomId \in DOMAIN roomStore
                 THEN {SocketEmit(socket, "syncVideo",
                          [roomStore[roomId] EXCEPT !.lastKnownTime = 0,
                                                    !.state = "paused"])}
                 ELSE {SocketEmit(socket, "syncVideo", defaultRoomState(roomId))}
    /\ last' = [op |-> "joinRoom", socket |-> socket, data |-> [roomId |-> roomId]]
    /\ UNCHANGED <<roomStore, status>>

\* socket.on('joinRoom')
JoinRoom(socket, roomId) ==
    /\ status[socket] = "connected"
    /\ rooms' = [rooms EXCEPT ![socket] = @ \cup {roomId}]
    /\ sent' = IF roomId \in DOMAIN roomStore
                 THEN {SocketEmit(socket, "syncVideo", roomStore[roomId])}
                 ELSE {SocketEmit(socket, "syncVideo", defaultRoomState(roomId))}
    /\ last' = [op |-> "joinRoom", socket |-> socket, data |-> [roomId |-> roomId]]
    /\ UNCHANGED <<roomStore, status>>

\* variant: the updated state is sent back to the updater only (socket.emit)
UpdateRoom_ReplyOnly(socket, roomId, videoUrl) ==
    /\ status[socket] = "connected"
    /\ IF roomId \in DOMAIN roomStore
         THEN LET roomState == [roomStore[roomId] EXCEPT !.videoUrl = videoUrl]
              IN /\ roomStore' = MapSet(roomStore, roomId, roomState)
                 /\ sent' = {SocketEmit(socket, "syncVideo", roomState)}
         ELSE /\ roomStore' = roomStore
              /\ sent' = {}
    /\ last' = [op |-> "updateRoom", socket |-> socket,
                data |-> [roomId |-> roomId, videoUrl |-> videoUrl]]
    /\ UNCHANGED <<status, rooms>>

\* variant: the updater is put in the room it updates (socket.join)
UpdateRoom_Joins(socket, roomId, videoUrl) ==
    /\ status[socket] = "connected"
    /\ IF roomId \in DOMAIN roomStore
         THEN LET roomState == [roomStore[roomId] EXCEPT !.videoUrl = videoUrl]
              IN /\ roomStore' = MapSet(roomStore, roomId, roomState)
                 /\ sent' = {IoToEmit(roomId, "syncVideo", roomState)}
         ELSE /\ roomStore' = roomStore
              /\ sent' = {}
    /\ rooms' = [rooms EXCEPT ![socket] = @ \cup {roomId}]
    /\ last' = [op |-> "updateRoom", socket |-> socket,
                data |-> [roomId |-> roomId, videoUrl |-> videoUrl]]
    /\ UNCHANGED status

\* variant: the updated state goes to the other members only (socket.to)
UpdateRoom_ExcludeSender(socket, roomId, videoUrl) ==
    /\ status[socket] = "connected"
    /\ IF roomId \in DOMAIN roomStore
         THEN LET roomState == [roomStore[roomId] EXCEPT !.videoUrl = videoUrl]
              IN /\ roomStore' = MapSet(roomStore, roomId, roomState)
                 /\ sent' = {SocketToEmit(socket, roomId, "syncVideo", roomState)}
         ELSE /\ roomStore' = roomStore
              /\ sent' = {}
    /\ last' = [op |-> "updateRoom", socket |-> socket,
                data |-> [roomId |-> roomId, videoUrl |-> videoUrl]]
    /\ UNCHANGED <<status, rooms>>

\* variant: an update of a room that is not stored creates it (upsert)
UpdateRoom_Upsert(socket, roomId, videoUrl) ==
    /\ status[socket] = "connected"
    /\ LET roomState == IF roomId \in DOMAIN roomStore
                          THEN [roomStore[roomId] EXCEPT !.videoUrl = videoUrl]
                          ELSE [roomId |-> roomId, videoUrl |-> videoUrl,
                                lastKnownTime |-> 0, state |-> "paused"]
       IN /\ roomStore' = MapSet(roomStore, roomId, roomState)
          /\ sent' = {IoToEmit(roomId, "syncVideo", roomState)}
    /\ last' = [op |-> "updateRoom", socket |-> socket,
                data |-> [roomId |-> roomId, videoUrl |-> videoUrl]]
    /\ UNCHANGED <<status, rooms>>

\* variant: an update re-initialises the playback position and state
UpdateRoom_Reset(socket, roomId, videoUrl) ==
    /\ status[socket] = "connected"
    /\ IF roomId \in DOMAIN roomStore
         THEN LET roomState == [roomStore[roomId] EXCEPT !.videoUrl = videoUrl,
                                                         !.lastKnownTime = 0,
                                                         !.state = "paused"]
              IN /\ roomStore' = MapSet(roomStore, roomId, roomState)
                 /\ sent' = {IoToEmit(roomId, "syncVideo", roomState)}
         ELSE /\ roomStore' = roomStore
              /\ sent' = {}
    /\ last' = [op |-> "updateRoom", socket |-> socket,
                data |-> [roomId |-> roomId, videoUrl |-> videoUrl]]
    /\ UNCHANGED <<status, rooms>>

\* socket.on('updateRoom')
UpdateRoom(socket, roomId, videoUrl) ==
    /\ status[socket] = "connected"
    /\ IF roomId \in DOMAIN roomStore
         THEN LET roomState == [roomStore[roomId] EXCEPT !.videoUrl = videoUrl]
              IN /\ roomStore' = MapSet(roomStore, roomId, roomState)
                 /\ sent' = {IoToEmit(roomId, "syncVideo", roomState)}
         ELSE /\ roomStore' = roomStore
              /\ sent' = {}
    /\ last' = [op |-> "updateRoom", socket |-> socket,
                data |-> [roomId |-> roomId, videoUrl |-> videoUrl]]
    /\ UNCHANGED <<status, rooms>>

\* Array.from(socket.rooms).filter((room) => room !== socket.id)
joinedRooms(socket) == {room \in rooms[socket] : room # socket}

\* variant: only one of the socket's rooms is updated (no loop)
forEachUpdate_FirstOnly(store, rs, event) ==
    IF rs = {} THEN store
    ELSE updateRoomState(store, CHOOSE r \in rs : TRUE, event)

\* rooms.forEach: the store after updateRoomState for each room in turn
\* (updates of distinct keys commute, so the iteration order is immaterial)
RECURSIVE forEachUpdate(_, _, _)
forEachUpdate(store, rs, event) ==
    IF rs = {} THEN store
    ELSE LET roomId == CHOOSE r \in rs : TRUE
         IN forEachUpdate(updateRoomState(store, roomId, event), rs \ {roomId}, event)

\* rooms.forEach: the emit call made for each room
forEachEmit(socket, rs, event) ==
    {SocketToEmit(socket, roomId, "videoEvent", event) : roomId \in rs}

\* variant: the event also goes to every other socket (socket.broadcast.emit)
VideoEvent_BroadcastAll(socket, data) ==
    /\ status[socket] = "connected"
    /\ LET rs == joinedRooms(socket)
       IN /\ roomStore' = forEachUpdate(roomStore, rs, data)
          /\ sent' = forEachEmit(socket, rs, data) \cup
                       {Emit("videoEvent", data, socket,
                             {s \in Sockets : status[s] = "connected"} \ {socket})}
    /\ last' = [op |-> "videoEvent", socket |-> socket, data |-> data]
    /\ UNCHANGED <<status, rooms>>

\* socket.on('videoEvent')
VideoEvent(socket, data) ==
    /\ status[socket] = "connected"
    /\ LET rs == joinedRooms(socket)
       IN /\ roomStore' = forEachUpdate(roomStore, rs, data)
          /\ sent' = forEachEmit(socket, rs, data)
    /\ last' = [op |-> "videoEvent", socket |-> socket, data |-> data]
    /\ UNCHANGED <<status, rooms>>

\* variant: the rooms the socket was the last member of are deleted
Disconnect_Cleanup(socket) ==
    /\ status[socket] = "connected"
    /\ status' = [status EXCEPT ![socket] = "closed"]
    /\ rooms' = [rooms EXCEPT ![socket] = {}]
    /\ roomStore' = [r \in {q \in DOMAIN roomStore : Members(q) # {socket}}
                        |-> roomStore[r]]
    /\ sent' = {}
    /\ last' = [op |-> "disconnect", socket |-> socket, left |-> rooms[socket]]

\* socket.on('disconnect'): the transport has taken the socket out of all rooms
Disconnect(socket) ==
    /\ status[socket] = "connected"
    /\ status' = [status EXCEPT ![socket] = "closed"]
    /\ rooms' = [rooms EXCEPT ![socket] = {}]
    /\ sent' = {}
    /\ last' = [op |-> "disconnect", socket |-> socket, left |-> rooms[socket]]
    /\ UNCHANGED roomStore

\* the server alone: every handler, for any socket and any payload, at any time
Next ==
    \/ \E s \in Sockets, r \in RoomIds, v \in Urls :
          CreateRoom(s, r, v) /\ UNCHANGED clientVars
    \/ \E s \in Sockets, r \in RoomIds :
          JoinRoom(s, r) /\ UNCHANGED clientVars
    \/ \E s \in Sockets, r \in RoomIds, v \in Urls :
          UpdateRoom(s, r, v) /\ UNCHANGED clientVars
    \/ \E s \in Sockets, e \in VideoEventPayload :
          VideoEvent(s, e) /\ UNCHANGED clientVars
    \/ \E s \in Sockets :
          Disconnect(s) /\ UNCHANGED clientVars

Spec == Init /\ [][Next]_vars

(***************************************************************************)
(* The server with a passive observer.  The observer only joins rooms; the *)
(* other sockets create, join, update and send events; nobody disconnects. *)
(* view[Observer] is the state the messages                                *)
(* written to the observer amount to, in the order they were written (the  *)
(* transport keeps the order per connection): a syncVideo replaces it, a   *)
(* videoEvent is reconciled into it.                                       *)
(***************************************************************************)
Observer == "c3"

\* State Reconciler: the entry an event leaves behind
Reconciled(room, event) ==
    [room EXCEPT !.lastKnownTime = event.currentTime,
                 !.state = IF event.type = "play" THEN "playing"
                           ELSE IF event.type = "pause" THEN "paused"
                           ELSE room.state]

\* a view after one message
ApplyMessage(v, m) ==
    IF m.channel = "syncVideo" THEN {m.payload}
    ELSE {Reconciled(snap, m.payload) : snap \in v}

\* a view after the messages a handler wrote to the socket; one handler writes
\* the same channel and payload in each of its emits
FoldSent(v, socket, msgs) ==
    LET mine == {m \in msgs : socket \in m.to}
    IN IF mine = {} THEN v ELSE ApplyMessage(v, CHOOSE m \in mine : TRUE)

\* the observer's view after a handler ran
Delivered == view' = [view EXCEPT ![Observer] = FoldSent(@, Observer, sent')]

Active == Sockets \ {Observer}

\* the handlers, with what they wrote to the observer folded into its view
ViewNext ==
    \/ \E s \in Active, r \in RoomIds, v \in Urls :
          CreateRoom(s, r, v) /\ Delivered /\ UNCHANGED <<outbox, inbox, player>>
    \/ \E s \in Sockets, r \in RoomIds :
          JoinRoom(s, r) /\ Delivered /\ UNCHANGED <<outbox, inbox, player>>
    \/ \E s \in Active, r \in RoomIds, v \in Urls :
          UpdateRoom(s, r, v) /\ Delivered /\ UNCHANGED <<outbox, inbox, player>>
    \/ \E s \in Active, e \in VideoEventPayload :
          VideoEvent(s, e) /\ Delivered /\ UNCHANGED <<outbox, inbox, player>>

SpecView == Init /\ [][ViewNext]_vars

(***************************************************************************)
(* Concurrent senders.  Every socket is a member of room R1: c1 created it *)
(* and the others joined, and each holds the snapshot it was sent.  A      *)
(* sender emits a videoEvent at any time (it is then in flight in          *)
(* outbox[c], in the order emitted) and counts its own event into its      *)
(* view; the server handles the events in flight one at a time, in any     *)
(* order across connections, and the relays reach their receivers at once. *)
(***************************************************************************)
MaxOutbox == 1

ConcRoom == "R1"

\* the members whose users act; the third member only watches
Senders == {"c1", "c2"}

ConcInit ==
    LET snapshot == [roomId |-> ConcRoom, videoUrl |-> "v1",
                     lastKnownTime |-> 0, state |-> "paused"]
    IN /\ roomStore = MapSet(<<>>, ConcRoom, snapshot)
       /\ status = [s \in Sockets |-> "connected"]
       /\ rooms = [s \in Sockets |-> {s, ConcRoom}]
       /\ sent = {SocketEmit("c3", "syncVideo", snapshot)}
       /\ last = [op |-> "joinRoom", socket |-> "c3", data |-> [roomId |-> ConcRoom]]
       /\ view = [s \in Sockets |-> {snapshot}]
       /\ outbox = [s \in Sockets |-> <<>>]
       /\ inbox = [s \in Sockets |-> <<>>]
       /\ player = [s \in Sockets |-> [paused |-> TRUE, currentTime |-> <<0, 1000>>]]

\* App.handlePlay / handlePause / handleSeeked: socket.emit('videoEvent', ...)
ClientEmit(socket, data) ==
    /\ status[socket] = "connected"
    /\ Len(outbox[socket]) < MaxOutbox
    /\ outbox' = [outbox EXCEPT ![socket] = Append(@, data)]
    /\ view' = [view EXCEPT ![socket] = {Reconciled(snap, data) : snap \in @}]
    /\ UNCHANGED <<serverVars, inbox, player>>

\* the server takes the oldest event in flight from the socket
ServerHandle(socket) ==
    /\ outbox[socket] # <<>>
    /\ VideoEvent(socket, Head(outbox[socket]))
    /\ outbox' = [outbox EXCEPT ![socket] = Tail(@)]
    /\ view' = [s \in Sockets |-> FoldSent(view[s], s, sent')]
    /\ UNCHANGED <<inbox, player>>

ConcNext ==
    \/ \E s \in Senders, e \in VideoEventPayload : ClientEmit(s, e)
    \/ \E s \in Senders : ServerHandle(s)

SpecConc == ConcInit /\ [][ConcNext]_vars

(***************************************************************************)
(* The clients' players.  Every socket is a member of room R1, as above,   *)
(* with its player paused at 0.  player[c].currentTime is in seconds, as   *)
(* the fraction <<numerator, denominator>>; payloads carry milliseconds.   *)
(* A user acts on a player when nothing is in flight; the player calls     *)
(* onPlay / onPause / onSeeked when its state actually changes, whoever    *)
(* changed it, and the handler emits a videoEvent.  outbox[c] holds the    *)
(* events of c on their way to the server, inbox[c] the relays on their    *)
(* way to c.                                                               *)
(***************************************************************************)

\* data.currentTime / 1000
FromMs(ms) == <<ms, 1000>>

\* currentTime * 1000
ToMs(seconds) == (seconds[1] * 1000) \div seconds[2]

Quiet == \A s \in Sockets : outbox[s] = <<>> /\ inbox[s] = <<>>

\* Player.handlePlay/handlePause/handleSeeked, then App.handlePlay/...:
\* the event the player's callback sends
Callback(type, p) == [type |-> type, currentTime |-> ToMs(p.currentTime)]

\* play(), pause() or currentTime = ... on the player of the socket, by the
\* user or by the videoEvent listener; the callback fires on a change
Apply(socket, type, seconds) ==
    LET p == player[socket]
        q == IF type = "play" THEN [p EXCEPT !.paused = FALSE]
             ELSE IF type = "pause" THEN [p EXCEPT !.paused = TRUE]
             ELSE [p EXCEPT !.currentTime = seconds]
    IN /\ player' = [player EXCEPT ![socket] = q]
       /\ outbox' = [outbox EXCEPT ![socket] =
                        IF q # p THEN Append(@, Callback(type, q)) ELSE @]

\* the user presses play or pause, or seeks
UserAction(socket, type, ms) ==
    /\ Quiet
    /\ status[socket] = "connected"
    /\ type = "play" => player[socket].paused
    /\ type = "pause" => ~player[socket].paused
    /\ type = "seek" => player[socket].currentTime # FromMs(ms)
    /\ Apply(socket, type, FromMs(ms))
    /\ UNCHANGED <<serverVars, view, inbox>>

\* the server takes the oldest event of the socket and relays it
ServerRelay(socket) ==
    /\ outbox[socket] # <<>>
    /\ player' = player
    /\ VideoEvent(socket, Head(outbox[socket]))
    /\ outbox' = [outbox EXCEPT ![socket] = Tail(@)]
    /\ inbox' = [s \in Sockets |->
                    IF \E m \in sent' : s \in m.to
                      THEN Append(inbox[s], Head(outbox[socket]))
                      ELSE inbox[s]]
    /\ UNCHANGED view

\* socket.on('videoEvent') in the client
ClientReceive(socket) ==
    /\ inbox[socket] # <<>>
    /\ LET data == Head(inbox[socket])
       IN Apply(socket, data.type, FromMs(data.currentTime))
    /\ inbox' = [inbox EXCEPT ![socket] = Tail(@)]
    /\ UNCHANGED <<serverVars, view>>

EchoNext ==
    \/ \E s \in Sockets, e \in VideoEventPayload : UserAction(s, e.type, e.currentTime)
    \/ \E s \in Sockets : ServerRelay(s)
    \/ \E s \in Sockets : ClientReceive(s)

SpecEcho == ConcInit /\ [][EchoNext]_vars

(***************************************************************************)
(* Properties                                                              *)
(***************************************************************************)

\* the rooms of the socket of the last handler that are stored
StoredRoomsOf(socket) == joinedRooms(socket) \cap DOMAIN roomStore

\* the sockets that the last handler wrote a message of this channel and payload to
Receivers(channel, payload) ==
    UNION {m.to : m \in {n \in sent : n.channel = channel /\ n.payload = payload}}

\* the sockets that the last handler wrote any message to
AllReceivers == UNION {m.to : m \in sent}

\* C1: every videoEvent handled for a socket leaves each stored room the socket
\* is in with lastKnownTime equal to the event's currentTime, and with state
\* 'playing' after a play, 'paused' after a pause, and the state it had before
\* the event after a seek.
C1_Step ==
    last'.op = "videoEvent" =>
        \A r \in joinedRooms(last'.socket) \cap DOMAIN roomStore :
            /\ r \in DOMAIN roomStore'
            /\ roomStore'[r].lastKnownTime = last'.data.currentTime
            /\ last'.data.type = "play" => roomStore'[r].state = "playing"
            /\ last'.data.type = "pause" => roomStore'[r].state = "paused"
            /\ last'.data.type = "seek" => roomStore'[r].state = roomStore[r].state

C1_EventReconciled == [][C1_Step]_vars

\* a seek at a time other than 0 was handled for a member of a playing room
C1_Witness ==
    /\ last.op = "videoEvent"
    /\ last.data.type = "seek"
    /\ last.data.currentTime = MaxTime
    /\ \E r \in StoredRoomsOf(last.socket) :
          /\ roomStore[r].state = "playing"
          /\ roomStore[r].lastKnownTime = MaxTime

\* the snapshot a createRoom stores
FreshState(roomId, videoUrl) ==
    [roomId |-> roomId, videoUrl |-> videoUrl, lastKnownTime |-> 0, state |-> "paused"]

\* a message written to one socket alone
Unicast(socket, channel, payload) ==
    [channel |-> channel, payload |-> payload, target |-> socket, to |-> {socket}]

\* C2: a videoEvent from socket A is relayed, for each room A is in, to exactly
\* the other members of that room; it is never written back to A and never to
\* a socket that shares no room with A.
C2_RelayToOthersOnly ==
    last.op = "videoEvent" =>
        LET A == last.socket
        IN /\ \A r \in joinedRooms(A) :
                 \E m \in sent : /\ m.target = r
                                  /\ m.channel = "videoEvent"
                                  /\ m.payload = last.data
                                  /\ m.to = Members(r) \ {A}
           /\ \A r \in joinedRooms(A) :
                 Members(r) \ {A} \subseteq Receivers("videoEvent", last.data)
           /\ A \notin AllReceivers
           /\ \A c \in Sockets :
                 joinedRooms(c) \cap joinedRooms(A) = {} => c \notin AllReceivers

\* A is in a room with another member B, while C is only in a room A is not in
C2_Witness ==
    /\ last.op = "videoEvent"
    /\ \E r1, r2 \in RoomIds, B, C \in Sockets :
          /\ r1 # r2 /\ B # last.socket /\ C # last.socket /\ B # C
          /\ r1 \in rooms[last.socket] /\ r2 \notin rooms[last.socket]
          /\ r1 \in rooms[B]
          /\ joinedRooms(C) = {r2}
          /\ B \in Receivers("videoEvent", last.data)
          /\ C \notin AllReceivers

\* C3: createRoom is accepted from every connected socket; after it the store
\* holds exactly {roomId, videoUrl, 0, paused} under roomId, the requester is in
\* the room, and the only message written is a syncVideo with that snapshot to
\* the requester alone.
C3_CreateRoom ==
    /\ \A s \in Sockets, r \in RoomIds, v \in Urls :
          status[s] = "connected" => ENABLED CreateRoom(s, r, v)
    /\ last.op = "createRoom" =>
          LET r == last.data.roomId
              snap == [roomId |-> r, videoUrl |-> last.data.videoUrl,
                       lastKnownTime |-> 0, state |-> "paused"]
          IN /\ r \in DOMAIN roomStore
             /\ roomStore[r] = snap
             /\ r \in rooms[last.socket]
             /\ sent = {Unicast(last.socket, "syncVideo", snap)}

\* a room was created while another socket was already in its broadcast group
C3_Witness ==
    /\ last.op = "createRoom"
    /\ ~last.existed
    /\ \E c \in Sockets \ {last.socket} : last.data.roomId \in rooms[c]
    /\ AllReceivers = {last.socket}

\* C4: a createRoom on a stored roomId replaces the whole entry: videoUrl is the
\* call's videoUrl, lastKnownTime is 0 and state is 'paused' whatever they were,
\* the set of stored rooms is the same, and the only message is the syncVideo
\* reply (there is no error message).
C4_Step ==
    (last'.op = "createRoom" /\ last'.data.roomId \in DOMAIN roomStore) =>
        LET r == last'.data.roomId
        IN /\ DOMAIN roomStore' = DOMAIN roomStore
           /\ roomStore'[r] = FreshState(r, last'.data.videoUrl)
           /\ \A m \in sent' : m.channel = "syncVideo"
           /\ Cardinality(sent') = 1

C4_CreateOverwrites == [][C4_Step]_vars

\* the second createRoom of a room, with the other videoUrl, on a room in which
\* another socket still is
C4_Witness ==
    /\ last.op = "createRoom"
    /\ last.existed
    /\ last.data.videoUrl = "v2"
    /\ roomStore[last.data.roomId] = FreshState(last.data.roomId, "v2")
    /\ \E c \in Sockets \ {last.socket} : last.data.roomId \in rooms[c]

\* C5: joinRoom of a roomId that is not stored is accepted: the socket is put
\* in the room's broadcast group and is sent, alone, a syncVideo with
\* {roomId, videoUrl: '', lastKnownTime: 0, state: 'paused'}.
C5_JoinUnknown ==
    /\ \A s \in Sockets, r \in RoomIds :
          status[s] = "connected" => ENABLED JoinRoom(s, r)
    /\ (last.op = "joinRoom" /\ last.data.roomId \notin DOMAIN roomStore) =>
          LET r == last.data.roomId
          IN /\ r \in rooms[last.socket]
             /\ sent = {Unicast(last.socket, "syncVideo",
                           [roomId |-> r, videoUrl |-> "",
                            lastKnownTime |-> 0, state |-> "paused"])}

\* a socket joined a room that is not stored and in which another socket is
C5_Witness ==
    /\ last.op = "joinRoom"
    /\ last.data.roomId \notin DOMAIN roomStore
    /\ \E c \in Sockets \ {last.socket} : last.data.roomId \in rooms[c]
    /\ AllReceivers = {last.socket}

\* C6: joinRoom of a stored room sends the joiner, and nobody else, a syncVideo
\* whose payload is the store's entry for the room as it is when the join is
\* handled.
C6_JoinSnapshot ==
    (last.op = "joinRoom" /\ last.data.roomId \in DOMAIN roomStore) =>
        /\ last.data.roomId \in rooms[last.socket]
        /\ sent = {Unicast(last.socket, "syncVideo", roomStore[last.data.roomId])}

\* a late joiner: the room is playing at a time other than 0 with the second
\* videoUrl, and other sockets were already in it
C6_Witness ==
    /\ last.op = "joinRoom"
    /\ last.data.roomId \in DOMAIN roomStore
    /\ roomStore[last.data.roomId] =
          [roomId |-> last.data.roomId, videoUrl |-> "v2",
           lastKnownTime |-> MaxTime, state |-> "playing"]
    /\ \E c \in Sockets \ {last.socket} : last.data.roomId \in rooms[c]
    /\ \E m \in sent : m.payload.state = "playing" /\ m.to = {last.socket}

\* C7: updateRoom of a stored room sets its videoUrl and writes one syncVideo,
\* carrying the updated entry, to every member of the room; the updater is not
\* excluded (it receives the message when it is a member).
C7_UpdateBroadcast ==
    (last.op = "updateRoom" /\ last.data.roomId \in DOMAIN roomStore) =>
        LET r == last.data.roomId
        IN /\ roomStore[r].videoUrl = last.data.videoUrl
           /\ sent = {[channel |-> "syncVideo", payload |-> roomStore[r],
                        target |-> r, to |-> Members(r)]}
           /\ Members(r) \subseteq Receivers("syncVideo", roomStore[r])
           /\ r \in rooms[last.socket] =>
                  last.socket \in Receivers("syncVideo", roomStore[r])

\* a member updated its room, in which another socket is too; both got the update
C7_Witness ==
    /\ last.op = "updateRoom"
    /\ last.data.roomId \in DOMAIN roomStore
    /\ last.data.roomId \in rooms[last.socket]
    /\ last.data.videoUrl = "v2"
    /\ \E c \in Sockets \ {last.socket} :
          /\ last.data.roomId \in rooms[c]
          /\ {c, last.socket} \subseteq AllReceivers

\* C8: updateRoom of a roomId that is not stored writes no message, stores
\* nothing and leaves every stored room and every membership as it was.
C8_Step ==
    (last'.op = "updateRoom" /\ last'.data.roomId \notin DOMAIN roomStore) =>
        /\ sent' = {}
        /\ roomStore' = roomStore
        /\ rooms' = rooms
        /\ status' = status

C8_UpdateUnknownNoOp == [][C8_Step]_vars

\* an update of a room that is not stored, while a socket is in its broadcast
\* group and another room is stored
C8_Witness ==
    /\ last.op = "updateRoom"
    /\ last.data.roomId \notin DOMAIN roomStore
    /\ Members(last.data.roomId) # {}
    /\ DOMAIN roomStore # {}
    /\ sent = {}

\* whether a room stored before and after a step has another position or state
PlaybackChanged(r) ==
    \/ roomStore'[r].lastKnownTime # roomStore[r].lastKnownTime
    \/ roomStore'[r].state # roomStore[r].state

\* C9: a disconnect takes the socket out of every room and leaves the store
\* and the other sockets' memberships as they were; no entry is ever removed
\* from the store; no message is ever written to a closed socket, which is in
\* no room; and a joinRoom of a stored room is answered with the stored entry.
C9_Step ==
    /\ DOMAIN roomStore \subseteq DOMAIN roomStore'
    /\ last'.op = "disconnect" =>
          /\ status'[last'.socket] = "closed"
          /\ rooms'[last'.socket] = {}
          /\ \A c \in Sockets \ {last'.socket} : rooms'[c] = rooms[c]
          /\ roomStore' = roomStore
          /\ sent' = {}

C9_Closed ==
    /\ \A c \in Sockets :
          status[c] = "closed" =>
              /\ c \notin AllReceivers
              /\ \A r \in RoomIds \cup Sockets : c \notin Members(r)
    /\ (last.op = "joinRoom" /\ last.data.roomId \in DOMAIN roomStore) =>
          \E m \in sent : /\ m.payload = roomStore[last.data.roomId]
                           /\ last.socket \in m.to

C9_DisconnectKeepsRooms == [][C9_Step]_vars /\ []C9_Closed

\* the last member of a stored room, which is playing at a time other than 0,
\* disconnected, and the room is still stored as it was
C9_Witness ==
    /\ last.op = "disconnect"
    /\ \E r \in last.left \cap DOMAIN roomStore :
          /\ Members(r) = {}
          /\ roomStore[r].state = "playing"
          /\ roomStore[r].lastKnownTime = MaxTime

\* C10 as stated: every step that changes the lastKnownTime or the state of a
\* stored room is the handling of a videoEvent from a member of that room.
C10_OriginalStep ==
    \A r \in DOMAIN roomStore \cap DOMAIN roomStore' :
        PlaybackChanged(r) =>
            /\ last'.op = "videoEvent"
            /\ r \in joinedRooms(last'.socket)

C10_Original == [][C10_OriginalStep]_vars

\* C10 (amended): every step that changes the lastKnownTime or the state of a
\* stored room is either the handling of a videoEvent from a member of that
\* room, or a createRoom of that roomId, which resets them to 0 and 'paused';
\* a joinRoom never changes them.
C10_Step ==
    \A r \in DOMAIN roomStore \cap DOMAIN roomStore' :
        PlaybackChanged(r) =>
            \/ /\ last'.op = "videoEvent"
               /\ r \in joinedRooms(last'.socket)
            \/ /\ last'.op = "createRoom"
               /\ last'.data.roomId = r
               /\ roomStore'[r].lastKnownTime = 0
               /\ roomStore'[r].state = "paused"

C10_PlaybackChangedOnlyBy == [][C10_Step]_vars

\* a play at a time other than 0 was handled for a member of a stored room in
\* which another socket is
C10_Witness ==
    /\ last.op = "videoEvent"
    /\ last.data = [type |-> "play", currentTime |-> MaxTime]
    /\ \E r \in StoredRoomsOf(last.socket) :
          /\ roomStore[r].state = "playing"
          /\ roomStore[r].lastKnownTime = MaxTime
          /\ Members(r) # {last.socket}

\* C11: an updateRoom of a stored room changes the entry's videoUrl only: its
\* roomId, lastKnownTime and state are as before, every other entry is as
\* before, and no socket's rooms change (an updater outside the room stays
\* outside).
C11_Step ==
    (last'.op = "updateRoom" /\ last'.data.roomId \in DOMAIN roomStore) =>
        LET r == last'.data.roomId
        IN /\ DOMAIN roomStore' = DOMAIN roomStore
           /\ roomStore'[r] = [roomStore[r] EXCEPT !.videoUrl = last'.data.videoUrl]
           /\ roomStore'[r].roomId = roomStore[r].roomId
           /\ roomStore'[r].lastKnownTime = roomStore[r].lastKnownTime
           /\ roomStore'[r].state = roomStore[r].state
           /\ \A q \in DOMAIN roomStore \ {r} : roomStore'[q] = roomStore[q]
           /\ rooms' = rooms
           /\ status' = status

C11_UpdateOnlyVideoUrl == [][C11_Step]_vars

\* a socket outside a room, which is playing at a time other than 0, set the
\* room's videoUrl while the other room is stored too
C11_Witness ==
    /\ last.op = "updateRoom"
    /\ DOMAIN roomStore = RoomIds
    /\ last.data.roomId \notin rooms[last.socket]
    /\ roomStore[last.data.roomId] =
          [roomId |-> last.data.roomId, videoUrl |-> last.data.videoUrl,
           lastKnownTime |-> MaxTime, state |-> "playing"]
    /\ Members(last.data.roomId) # {}

\* C12: the store is a map with one entry per key; the roomId field of each
\* entry is the key it is stored under, in every state, and no step changes
\* the roomId field of a stored entry.
C12_KeyIsRoomId ==
    /\ \A r \in DOMAIN roomStore : roomStore[r].roomId = r
    /\ Cardinality({roomStore[r].roomId : r \in DOMAIN roomStore})
          = Cardinality(DOMAIN roomStore)

C12_Step ==
    \A r \in DOMAIN roomStore :
        /\ r \in DOMAIN roomStore'
        /\ roomStore'[r].roomId = roomStore[r].roomId

C12_OneStatePerRoomId == []C12_KeyIsRoomId /\ [][C12_Step]_vars

\* both rooms are stored, one just created again over its old entry, the
\* other one playing
C12_Witness ==
    /\ last.op = "createRoom"
    /\ last.existed
    /\ DOMAIN roomStore = RoomIds
    /\ \E r \in RoomIds \ {last.data.roomId} : roomStore[r].state = "playing"

\* C13: one videoEvent is applied to every room its sender is in: each of them
\* that is stored is reconciled with the event and the event is relayed to the
\* other members of each; a room the sender is not in keeps its entry and
\* nothing is emitted to it.
C13_Step ==
    last'.op = "videoEvent" =>
        LET A == last'.socket
            e == last'.data
        IN /\ DOMAIN roomStore' = DOMAIN roomStore
           /\ \A r \in RoomIds :
                 IF r \in rooms[A]
                 THEN /\ r \in DOMAIN roomStore =>
                            roomStore'[r] = Reconciled(roomStore[r], e)
                      /\ \E m \in sent' : /\ m.target = r
                                            /\ m.channel = "videoEvent"
                                            /\ m.payload = e
                                            /\ m.to = Members(r) \ {A}
                 ELSE /\ r \in DOMAIN roomStore => roomStore'[r] = roomStore[r]
                      /\ \A m \in sent' : m.target # r

C13_FanOut == [][C13_Step]_vars

\* a play at a time other than 0 from a socket in both stored rooms, each with
\* another member, one of which is in that room only
C13_Witness ==
    /\ last.op = "videoEvent"
    /\ last.data = [type |-> "play", currentTime |-> MaxTime]
    /\ joinedRooms(last.socket) = RoomIds
    /\ DOMAIN roomStore = RoomIds
    /\ \A r \in RoomIds :
          /\ roomStore[r].state = "playing"
          /\ roomStore[r].lastKnownTime = MaxTime
          /\ \E c \in Sockets \ {last.socket} :
                joinedRooms(c) = {r} /\ c \in AllReceivers

\* C14: a videoEvent never adds an entry to the store; for a room of the
\* sender that is not stored the event is still relayed to the room's other
\* members; and a joinRoom of a room that is not stored is answered with the
\* synthetic default.
C14_Step ==
    last'.op = "videoEvent" =>
        /\ DOMAIN roomStore' = DOMAIN roomStore
        /\ \A r \in joinedRooms(last'.socket) \ DOMAIN roomStore :
              /\ r \notin DOMAIN roomStore'
              /\ \E m \in sent' : /\ m.target = r
                                    /\ m.channel = "videoEvent"
                                    /\ m.payload = last'.data
                                    /\ m.to = Members(r) \ {last'.socket}

C14_JoinDefault ==
    (last.op = "joinRoom" /\ last.data.roomId \notin DOMAIN roomStore) =>
        \E m \in sent :
            /\ last.socket \in m.to
            /\ m.payload = [roomId |-> last.data.roomId, videoUrl |-> "",
                            lastKnownTime |-> 0, state |-> "paused"]

C14_EventOnUnknownRoom == [][C14_Step]_vars /\ []C14_JoinDefault

\* a play from a socket in a room that is not stored reached the room's other
\* member, and the room is still not stored
C14_Witness ==
    /\ last.op = "videoEvent"
    /\ last.data.type = "play"
    /\ \E r \in joinedRooms(last.socket) \ DOMAIN roomStore :
          \E c \in Members(r) \ {last.socket} :
              c \in Receivers("videoEvent", last.data)

\* C16: a joinRoom leaves the store as it is, whether the room is stored or
\* not; it adds the room to the joining socket's rooms and changes no other
\* socket's rooms.
C16_Step ==
    last'.op = "joinRoom" =>
        /\ roomStore' = roomStore
        /\ DOMAIN roomStore' = DOMAIN roomStore
        /\ rooms'[last'.socket] = rooms[last'.socket] \cup {last'.data.roomId}
        /\ \A c \in Sockets \ {last'.socket} : rooms'[c] = rooms[c]
        /\ status' = status

C16_JoinKeepsStore == [][C16_Step]_vars

\* a socket joined a room that is not stored, while the other room is stored
\* and playing at a time other than 0
C16_Witness ==
    /\ last.op = "joinRoom"
    /\ last.data.roomId \notin DOMAIN roomStore
    /\ last.data.roomId \in rooms[last.socket]
    /\ \E r \in DOMAIN roomStore :
          roomStore[r].state = "playing" /\ roomStore[r].lastKnownTime = MaxTime

\* C19: a videoEvent from a socket that is in no room (but its own) leaves the
\* store as it is and emits nothing.
C19_Step ==
    (last'.op = "videoEvent" /\ joinedRooms(last'.socket) = {}) =>
        /\ roomStore' = roomStore
        /\ sent' = {}
        /\ rooms' = rooms

C19_EventWithoutRoom == [][C19_Step]_vars

\* a play from a socket in no room, while both rooms are stored, paused, and
\* have members
C19_Witness ==
    /\ last.op = "videoEvent"
    /\ last.data = [type |-> "play", currentTime |-> MaxTime]
    /\ rooms[last.socket] = {last.socket}
    /\ DOMAIN roomStore = RoomIds
    /\ \A r \in RoomIds : Members(r) # {} /\ roomStore[r].state = "paused"
    /\ sent = {}

\* C18 as stated: the observer sends nothing but its joinRoom; whenever it is
\* in a stored room R, the state its messages amount to is the store's entry
\* for R.
C18_Original ==
    \A r \in RoomIds :
        (r \in rooms[Observer] /\ r \in DOMAIN roomStore) =>
            view[Observer] = {roomStore[r]}

\* the observer is in room r only, r is stored, and the observer's view is
\* the store's entry for r
Synced(r) ==
    /\ joinedRooms(Observer) = {r}
    /\ r \in DOMAIN roomStore
    /\ view[Observer] = {roomStore[r]}

\* C18 (amended): the observer is in step with the store's entry for its only
\* room R right after it joins R, if R is stored then; and once in step it
\* stays in step through every createRoom of another room, joinRoom,
\* updateRoom and videoEvent of the other sockets, as long as it joins no
\* other room.  Only a createRoom of R itself, which is answered to its
\* requester alone, is excepted.
C18_Step ==
    \A r \in RoomIds :
        /\ ( /\ last'.op = "joinRoom"
             /\ last'.socket = Observer
             /\ last'.data.roomId = r
             /\ r \in DOMAIN roomStore
             /\ rooms'[Observer] = {Observer, r} ) => Synced(r)'
        /\ ( /\ Synced(r)
             /\ rooms'[Observer] = rooms[Observer]
             /\ ~(last'.op = "createRoom" /\ last'.data.roomId = r) ) => Synced(r)'

C18_PassiveMemberInStep == [][C18_Step]_vars

\* the observer is in step with a room that, since it joined, was given the
\* second videoUrl by another socket and is playing at a time other than 0
C18_Witness ==
    /\ last.op = "updateRoom"
    /\ last.data.videoUrl = "v2"
    /\ Synced(last.data.roomId)
    /\ roomStore[last.data.roomId].state = "playing"
    /\ roomStore[last.data.roomId].lastKnownTime = MaxTime
    /\ Observer \in AllReceivers

\* C15: the server takes an event in flight as it comes: the stored room gets
\* the event's currentTime, smaller than the stored lastKnownTime or not, and
\* the state the event's type dictates, whatever was stored by the events
\* handled before.
C15_Step ==
    \A c \in Sockets :
        (outbox[c] # <<>> /\ outbox'[c] = Tail(outbox[c])) =>
            LET e == Head(outbox[c])
            IN \A r \in StoredRoomsOf(c) :
                  /\ roomStore'[r].lastKnownTime = e.currentTime
                  /\ e.type = "play" => roomStore'[r].state = "playing"
                  /\ e.type = "pause" => roomStore'[r].state = "paused"
                  /\ e.type = "seek" => roomStore'[r].state = roomStore[r].state

C15_LastHandledWins == [][C15_Step]_vars

\* a stale pause (time 0) of c2 was handled after a fresher play (time MaxTime)
\* of another member, which c2 had been relayed: the room is paused at 0
C15_Witness ==
    /\ last.op = "videoEvent"
    /\ last.socket = "c2"
    /\ last.data = [type |-> "pause", currentTime |-> 0]
    /\ view["c2"] = {[roomStore[ConcRoom] EXCEPT !.state = "playing",
                                                 !.lastKnownTime = MaxTime]}
    /\ roomStore[ConcRoom].state = "paused"
    /\ roomStore[ConcRoom].lastKnownTime = 0
    /\ \A c \in Sockets : outbox[c] = <<>>

\* C17: once no event is in flight, every member's view of the state and the
\* position of the room is the store's
C17_Converges ==
    (\A c \in Sockets : outbox[c] = <<>>) =>
        \A c \in Members(ConcRoom) : \A snap \in view[c] :
            /\ snap.state = roomStore[ConcRoom].state
            /\ snap.lastKnownTime = roomStore[ConcRoom].lastKnownTime

\* C20: a client that takes a relayed videoEvent from its inbox and applies it
\* to its player sends nothing to the server
C20_Step ==
    \A c \in Sockets :
        (inbox[c] # <<>> /\ inbox'[c] = Tail(inbox[c])) => outbox'[c] = outbox[c]

C20_NoEcho == [][C20_Step]_vars

====
